---------------------------- MODULE Spec2Model ----------------------------
(***************************************************************************)
(* The Kaleidoscope front end of 01-Implementing_a_Parser_and_AST/main.cpp *)
(* as a state machine: the tokenizer gettok reading standard input one     *)
(* character at a time, the recursive-descent / operator-precedence parser *)
(* with its one token of lookahead, and the driver MainLoop.               *)
(*                                                                         *)
(* Characters and tokens are integers, as in the source: a character is    *)
(* its ASCII code, the five token kinds are the negative numbers of enum   *)
(* Token, and any other character is returned by gettok as its code.       *)
(***************************************************************************)
EXTENDS Integers, Sequences, FiniteSets, TLC

VARIABLES
    src,    \* history: the lexemes standard input was written from
    st,     \* the program's globals and streams (see InitGlobals)
    pc,     \* where main is: "main", "loop" (inside MainLoop), "done"
    hist    \* history: one record per MainLoop iteration (or per gettok call)

vars == <<src, st, pc, hist>>

----------------------------------------------------------------------------
(* Characters.                                                             *)

\* The printable ASCII characters, 32 to 126, in order (the backquote, 96,
\* cannot be written in a string and is left out).
AsciiTable ==
    << " ", "!", "\"", "#", "$", "%", "&", "'", "(", ")", "*", "+", ",", "-",
       ".", "/", "0", "1", "2", "3", "4", "5", "6", "7", "8", "9", ":", ";",
       "<", "=", ">", "?", "@", "A", "B", "C", "D", "E", "F", "G", "H", "I",
       "J", "K", "L", "M", "N", "O", "P", "Q", "R", "S", "T", "U", "V", "W",
       "X", "Y", "Z", "[", "\\", "]", "^", "_", "", "a", "b", "c", "d", "e",
       "f", "g", "h", "i", "j", "k", "l", "m", "n", "o", "p", "q", "r", "s",
       "t", "u", "v", "w", "x", "y", "z", "{", "|", "}", "~" >>

\* The code of a character written as a one-character string.
Ord(c) ==
    CASE c = "\t" -> 9
      [] c = "\n" -> 10
      [] c = "\r" -> 13
      [] OTHER -> 31 + (CHOOSE i \in 1..Len(AsciiTable) : AsciiTable[i] = c)

\* A std::string, written as the sequence of its characters.
Str(cs) == [i \in 1..Len(cs) |-> Ord(cs[i])]

\* getchar's end-of-file value.
EOF == -1

isspace(c) == c = 32 \/ c \in 9..13
isalpha(c) == c \in 65..90 \/ c \in 97..122
isdigit(c) == c \in 48..57
isalnum(c) == isalpha(c) \/ isdigit(c)
isascii(c) == c \in 0..127

----------------------------------------------------------------------------
(* Lexer.                                                                  *)

tok_eof == -1
tok_def == -2
tok_extern == -3
tok_identifier == -4
tok_number == -5

\* LastChar = getchar(): the next character of standard input, EOF at (and
\* after) its end.
getchar(G) ==
    IF G.stdin = << >>
    THEN [G EXCEPT !.LastChar = EOF]
    ELSE [G EXCEPT !.LastChar = Head(G.stdin), !.stdin = Tail(G.stdin)]

\* The value of a digit string, most significant digit first.
RECURSIVE DigitsValue(_)
DigitsValue(ds) ==
    IF ds = << >> THEN 0
    ELSE 10 * DigitsValue(SubSeq(ds, 1, Len(ds) - 1)) + (ds[Len(ds)] - 48)

\* The longest prefix of s made of digits.
RECURSIVE DigitPrefix(_)
DigitPrefix(s) ==
    IF s # << >> /\ isdigit(Head(s)) THEN <<Head(s)>> \o DigitPrefix(Tail(s))
    ELSE << >>

\* A digit string without its trailing zeros.
RECURSIVE StripZeros(_)
StripZeros(ds) ==
    IF ds # << >> /\ ds[Len(ds)] = 48
    THEN StripZeros(SubSeq(ds, 1, Len(ds) - 1))
    ELSE ds

\* strtod on a string of digits and dots: the value of the longest prefix
\* digits [ '.' digits ] that holds a digit, 0.0 when there is none.  The
\* double is written <<integer part, fraction digits without trailing zeros>>,
\* one value per decimal number (two numerals of at most 15 significant
\* digits denote the same double exactly when they denote the same decimal).
strtod(NumStr) ==
    LET ip == DigitPrefix(NumStr)
        rest == SubSeq(NumStr, Len(ip) + 1, Len(NumStr))
        fp == IF rest # << >> /\ Head(rest) = Ord(".")
              THEN DigitPrefix(Tail(rest)) ELSE << >>
    IN  <<DigitsValue(ip), StripZeros(fp)>>

\* Each function of the source is written as a chain of operators, one per
\* stretch of straight-line code: an operator takes the value the previous
\* stretch computed and does what the function does from there on.

\* while (isspace(LastChar)) LastChar = getchar();
RECURSIVE SkipSpaces(_)
SkipSpaces(G) ==
    IF isspace(G.LastChar) THEN SkipSpaces(getchar(G)) ELSE G

\* while (isalnum((LastChar = getchar()))) IdentifierStr += LastChar;
\* G1 holds the character just read.
RECURSIVE IdentLoop(_)
IdentLoop(G1) ==
    IF isalnum(G1.LastChar)
    THEN IdentLoop(getchar([G1 EXCEPT !.IdentifierStr = Append(@, G1.LastChar)]))
    ELSE G1

\* The keyword test on the identifier read.
IdentToken(G) ==
    [g |-> G,
     tok |-> IF G.IdentifierStr = Str(<<"d", "e", "f">>) THEN tok_def
             ELSE IF G.IdentifierStr = Str(<<"e", "x", "t", "e", "r", "n">>)
                  THEN tok_extern
             ELSE tok_identifier]

\* do { NumStr += LastChar; LastChar = getchar(); }
\* while (isdigit(LastChar) || LastChar == '.');
\* G1 holds the character just read, NumStr the string so far.
RECURSIVE NumLoop(_, _)
NumLoop(G1, NumStr) ==
    IF isdigit(G1.LastChar) \/ G1.LastChar = Ord(".")
    THEN NumLoop(getchar(G1), Append(NumStr, G1.LastChar))
    ELSE [g |-> [G1 EXCEPT !.NumVal = strtod(NumStr)], tok |-> tok_number]

\* Mutant of CommentLoop: a carriage return does not end the comment.
RECURSIVE CommentLoop_NoCR(_)
CommentLoop_NoCR(G1) ==
    IF G1.LastChar # EOF /\ G1.LastChar # Ord("\n")
    THEN CommentLoop_NoCR(getchar(G1))
    ELSE G1

\* do { LastChar = getchar(); }
\* while (LastChar != EOF && LastChar != '\n' && LastChar != '\r');
\* G1 holds the character just read.
RECURSIVE CommentLoop(_)
CommentLoop(G1) ==
    IF G1.LastChar # EOF /\ G1.LastChar # Ord("\n") /\ G1.LastChar # Ord("\r")
    THEN CommentLoop(getchar(G1))
    ELSE G1

RECURSIVE gettok(_)

\* After the comment is skipped: the token that follows it, or the
\* end-of-file check that follows the if.
AfterComment(G) ==
    IF G.LastChar # EOF THEN gettok(G) ELSE [g |-> G, tok |-> tok_eof]

\* gettok after its whitespace loop.
Tokenize(G) ==
    IF isalpha(G.LastChar)
        THEN IdentToken(IdentLoop(getchar([G EXCEPT !.IdentifierStr = <<G.LastChar>>])))
    ELSE IF isdigit(G.LastChar) \/ G.LastChar = Ord(".")
        THEN NumLoop(getchar(G), <<G.LastChar>>)
    ELSE IF G.LastChar = Ord("#")
        THEN AfterComment(CommentLoop(getchar(G)))
    ELSE IF G.LastChar = EOF
        THEN [g |-> G, tok |-> tok_eof]
    ELSE [g |-> getchar(G), tok |-> G.LastChar]

\* gettok: [g, tok], the next token of standard input and the globals left.
gettok(G) == Tokenize(SkipSpaces(G))

----------------------------------------------------------------------------
(* Abstract syntax tree.  A null unique_ptr is the record Null.            *)

Null == [t |-> "null"]
IsNull(a) == a.t = "null"

NumberExprAST(Val) == [t |-> "Number", Val |-> Val]
VariableExprAST(Name) == [t |-> "Variable", Name |-> Name]
BinaryExprAST(Op, LHS, RHS) == [t |-> "Binary", Op |-> Op, LHS |-> LHS, RHS |-> RHS]
CallExprAST(Callee, Args) == [t |-> "Call", Callee |-> Callee, Args |-> Args]
PrototypeAST(Name, Args) == [t |-> "Prototype", Name |-> Name, Args |-> Args]
FunctionAST(Proto, Body) == [t |-> "Function", Proto |-> Proto, Body |-> Body]

----------------------------------------------------------------------------
(* Parser.  Every rule takes the globals G and returns [g, ast]: the       *)
(* globals it leaves and the node it returns (Null for nullptr).           *)

\* CurTok = r.tok for the result r of gettok.  ntok counts the tokens
\* requested (history).
SetCurTok(r) == [r.g EXCEPT !.CurTok = r.tok, !.ntok = @ + 1]

\* getNextToken: CurTok = gettok().
getNextToken(G) == SetCurTok(gettok(G))

\* std::map<char,int>::operator[]: the map after m[k], which holds k (with
\* a value-initialised 0 when it was absent).
MapIndex(m, k) == IF k \in DOMAIN m THEN m ELSE m @@ (k :> 0)

\* Mutant of TokPrecOf: a token without a precedence gets 0, not -1.
TokPrecOf_Zero(G1) ==
    [g |-> G1,
     prec |-> IF G1.BinopPrecedence[G1.CurTok] <= 0 THEN 0
              ELSE G1.BinopPrecedence[G1.CurTok]]

\* GetTokPrecedence after int TokPrec = BinopPrecedence[CurTok], G1 being
\* the globals that leaves.
TokPrecOf(G1) ==
    [g |-> G1,
     prec |-> IF G1.BinopPrecedence[G1.CurTok] <= 0 THEN -1
              ELSE G1.BinopPrecedence[G1.CurTok]]

\* GetTokPrecedence: [g, prec].
GetTokPrecedence(G) ==
    IF ~isascii(G.CurTok) THEN [g |-> G, prec |-> -1]
    ELSE TokPrecOf([G EXCEPT !.BinopPrecedence = MapIndex(@, G.CurTok)])

\* LogError / LogErrorP: one line on stderr, and nullptr.  errAt records,
\* for each report, the number of tokens requested so far and the current
\* token (history).
LogError(G, Msg) ==
    [g |-> [G EXCEPT !.stderr = Append(@, "Error: " \o Msg \o "\n"),
                     !.errAt = Append(@, [ntok |-> G.ntok, tok |-> G.CurTok])],
     ast |-> Null]

\* Mutant of Fail: the caller requests a token before it returns nullptr.
Fail_Advance(G) == [g |-> getNextToken(G), ast |-> Null]

\* return nullptr, after a sub-rule returned nullptr leaving globals G.
Fail(G) == [g |-> G, ast |-> Null]

ParseNumberExpr(G) ==
    [g |-> getNextToken(G), ast |-> NumberExprAST(G.NumVal)]

\* if (TokPrec < NextPrec): the pending operator binds tighter than the one
\* just consumed, so it takes RHS as its left operand.
BindsTighter(TokPrec, NextPrec) == TokPrec < NextPrec

RECURSIVE ParseExpression(_), ParsePrimary(_), ParseParenExpr(_),
          ParseIdentifierExpr(_), ParseCallArgs(_, _), ParseBinOpRHS(_, _, _)

\* ParseParenExpr once the inner expression V is parsed.
CloseParen(V) ==
    IF IsNull(V.ast) THEN Fail(V.g)
    ELSE IF V.g.CurTok # Ord(")") THEN LogError(V.g, "expected ')'")
    ELSE [g |-> getNextToken(V.g), ast |-> V.ast]

ParseParenExpr(G) == CloseParen(ParseExpression(getNextToken(G)))

\* The argument loop's return of nullptr: [g, ast, Args] with ast Null.
ArgsFail(e) == [g |-> e.g, ast |-> Null, Args |-> << >>]

\* Mutant of AfterArg: the loop is left at ')' before the argument is pushed.
AfterArg_BreakFirst(Arg, Args) ==
    IF IsNull(Arg.ast) THEN ArgsFail(Arg)
    ELSE IF Arg.g.CurTok = Ord(")")
        THEN [g |-> Arg.g, ast |-> Arg.ast, Args |-> Args]
    ELSE IF Arg.g.CurTok # Ord(",")
        THEN ArgsFail(LogError(Arg.g, "Expected ')' or ',' in argument list"))
    ELSE ParseCallArgs(getNextToken(Arg.g), Append(Args, Arg.ast))

\* The body of the argument loop once the argument Arg is parsed, Args
\* being the arguments before it.
AfterArg(Arg, Args) ==
    IF IsNull(Arg.ast) THEN ArgsFail(Arg)
    ELSE IF Arg.g.CurTok = Ord(")")
        THEN [g |-> Arg.g, ast |-> Arg.ast, Args |-> Append(Args, Arg.ast)]
    ELSE IF Arg.g.CurTok # Ord(",")
        THEN ArgsFail(LogError(Arg.g, "Expected ')' or ',' in argument list"))
    ELSE ParseCallArgs(getNextToken(Arg.g), Append(Args, Arg.ast))

\* The while (true) loop of ParseIdentifierExpr: [g, ast, Args], ast Null
\* when the loop returned nullptr.
ParseCallArgs(G, Args) == AfterArg(ParseExpression(G), Args)

\* ParseIdentifierExpr after its argument loop a.
MakeCall(IdName, a) ==
    IF IsNull(a.ast) THEN Fail(a.g)
    ELSE [g |-> getNextToken(a.g), ast |-> CallExprAST(IdName, a.Args)]

\* ParseIdentifierExpr after '(' is consumed.
CallRest(IdName, G2) ==
    IF G2.CurTok # Ord(")") THEN MakeCall(IdName, ParseCallArgs(G2, << >>))
    ELSE [g |-> getNextToken(G2), ast |-> CallExprAST(IdName, << >>)]

\* ParseIdentifierExpr after the identifier is consumed.
IdentifierRest(IdName, G1) ==
    IF G1.CurTok # Ord("(") THEN [g |-> G1, ast |-> VariableExprAST(IdName)]
    ELSE CallRest(IdName, getNextToken(G1))

ParseIdentifierExpr(G) == IdentifierRest(G.IdentifierStr, getNextToken(G))

ParsePrimary(G) ==
    CASE G.CurTok = tok_identifier -> ParseIdentifierExpr(G)
      [] G.CurTok = tok_number -> ParseNumberExpr(G)
      [] G.CurTok = Ord("(") -> ParseParenExpr(G)
      [] OTHER -> LogError(G, "unknown token when expecting an expression")

\* The loop body of ParseBinOpRHS from the merge of LHS and RHS on.
BinOpMerge(ExprPrec, LHS, BinOp, RHS) ==
    IF IsNull(RHS.ast) THEN Fail(RHS.g)
    ELSE ParseBinOpRHS(ExprPrec, BinaryExprAST(BinOp, LHS, RHS.ast), RHS.g)

\* Mutant of BinOpNext: an operator of the same precedence takes RHS as its
\* left operand too (right associativity).
BinOpNext_RightAssoc(ExprPrec, LHS, TokPrec, BinOp, RHS, q) ==
    BinOpMerge(ExprPrec, LHS, BinOp,
               IF TokPrec <= q.prec
               THEN ParseBinOpRHS(TokPrec, RHS, q.g)
               ELSE [g |-> q.g, ast |-> RHS])

\* The loop body from int NextPrec = GetTokPrecedence() on, q being that
\* call's result.
BinOpNext(ExprPrec, LHS, TokPrec, BinOp, RHS, q) ==
    BinOpMerge(ExprPrec, LHS, BinOp,
               IF BindsTighter(TokPrec, q.prec)
               THEN ParseBinOpRHS(TokPrec + 1, RHS, q.g)
               ELSE [g |-> q.g, ast |-> RHS])

\* The loop body once the primary RHS after the operator is parsed.
BinOpAfterPrimary(ExprPrec, LHS, TokPrec, BinOp, RHS) ==
    IF IsNull(RHS.ast) THEN Fail(RHS.g)
    ELSE BinOpNext(ExprPrec, LHS, TokPrec, BinOp, RHS.ast,
                   GetTokPrecedence(RHS.g))

\* The loop body after int TokPrec = GetTokPrecedence(), p being that
\* call's result.
BinOpLoop(ExprPrec, LHS, p) ==
    IF p.prec < ExprPrec THEN [g |-> p.g, ast |-> LHS]
    ELSE BinOpAfterPrimary(ExprPrec, LHS, p.prec, p.g.CurTok,
                           ParsePrimary(getNextToken(p.g)))

ParseBinOpRHS(ExprPrec, LHS, G) ==
    BinOpLoop(ExprPrec, LHS, GetTokPrecedence(G))

\* ParseExpression once its first primary LHS is parsed.
ExpressionRest(LHS) ==
    IF IsNull(LHS.ast) THEN Fail(LHS.g)
    ELSE ParseBinOpRHS(0, LHS.ast, LHS.g)

ParseExpression(G) == ExpressionRest(ParsePrimary(G))

\* Mutant of ProtoArgLoop: a parameter name already seen is not added.
RECURSIVE ProtoArgLoop_Unique(_, _)
ProtoArgLoop_Unique(G1, ArgNames) ==
    IF G1.CurTok = tok_identifier
    THEN ProtoArgLoop_Unique(getNextToken(G1),
             IF \E i \in 1..Len(ArgNames) : ArgNames[i] = G1.IdentifierStr
             THEN ArgNames ELSE Append(ArgNames, G1.IdentifierStr))
    ELSE [g |-> G1, ArgNames |-> ArgNames]

\* while (getNextToken() == tok_identifier) ArgNames.push_back(IdentifierStr);
\* G1 holds the token just read.
RECURSIVE ProtoArgLoop(_, _)
ProtoArgLoop(G1, ArgNames) ==
    IF G1.CurTok = tok_identifier
    THEN ProtoArgLoop(getNextToken(G1), Append(ArgNames, G1.IdentifierStr))
    ELSE [g |-> G1, ArgNames |-> ArgNames]

\* ParsePrototype after the loop a over the parameter names.
PrototypeEnd(FnName, a) ==
    IF a.g.CurTok # Ord(")") THEN LogError(a.g, "Expected ')' in prototype")
    ELSE [g |-> getNextToken(a.g), ast |-> PrototypeAST(FnName, a.ArgNames)]

\* ParsePrototype after the function name is consumed.
PrototypeArgs(FnName, G1) ==
    IF G1.CurTok # Ord("(") THEN LogError(G1, "Expected '(' in prototype")
    ELSE PrototypeEnd(FnName, ProtoArgLoop(getNextToken(G1), << >>))

ParsePrototype(G) ==
    IF G.CurTok # tok_identifier
    THEN LogError(G, "Expected function name in prototype")
    ELSE PrototypeArgs(G.IdentifierStr, getNextToken(G))

\* ParseDefinition once the body E is parsed.
MakeFunction(Proto, E) ==
    IF IsNull(E.ast) THEN Fail(E.g)
    ELSE [g |-> E.g, ast |-> FunctionAST(Proto, E.ast)]

\* ParseDefinition once the prototype Proto is parsed.
DefinitionBody(Proto) ==
    IF IsNull(Proto.ast) THEN Fail(Proto.g)
    ELSE MakeFunction(Proto.ast, ParseExpression(Proto.g))

ParseDefinition(G) == DefinitionBody(ParsePrototype(getNextToken(G)))

\* The prototype of an anonymous top-level function.
AnonProto ==
    PrototypeAST(Str(<<"_", "_", "a", "n", "o", "n", "_", "e", "x", "p", "r">>),
                 << >>)

ParseTopLevelExpr(G) == MakeFunction(AnonProto, ParseExpression(G))

ParseExtern(G) == ParsePrototype(getNextToken(G))

----------------------------------------------------------------------------
(* Top-level parsing and the driver.                                       *)

\* fprintf(stderr, s)
fprintf(G, s) == [G EXCEPT !.stderr = Append(@, s)]

Prompt == "kaleidoscope >>> "

\* Mutant of Report: a failed construct skips two tokens.
Report_SkipTwo(r, msg) ==
    [ret |-> r,
     g |-> IF ~IsNull(r.ast) THEN fprintf(r.g, msg)
           ELSE getNextToken(getNextToken(r.g))]

\* Mutant of Report: a failed construct skips no token.
Report_NoSkip(r, msg) ==
    [ret |-> r,
     g |-> IF ~IsNull(r.ast) THEN fprintf(r.g, msg) ELSE r.g]

\* A handler once its entry point returned r: the report, or the skip of
\* one token.  [ret, g]: the entry point's return (history) and the globals
\* the handler leaves.
Report(r, msg) ==
    [ret |-> r,
     g |-> IF ~IsNull(r.ast) THEN fprintf(r.g, msg) ELSE getNextToken(r.g)]

HandleDefinition(G) ==
    Report(ParseDefinition(G), "Parsed a function definition\n")

HandleExtern(G) == Report(ParseExtern(G), "Parsed an extern\n")

HandleTopLevelExpression(G) ==
    Report(ParseTopLevelExpr(G), "Parsed a top-level expression\n")

\* case ';' of MainLoop.
SkipSemicolon(G) == getNextToken(fprintf(G, Prompt))

\* m[k] = v on a std::map.
MapAssign(m, k, v) ==
    [x \in DOMAIN m \cup {k} |-> IF x = k THEN v ELSE m[x]]

\* Mutant of InstallPrecedence: '*' gets the precedence of '+' and '-'.
InstallPrecedence_Flat(m) ==
    MapAssign(MapAssign(MapAssign(MapAssign(m,
        Ord("<"), 10), Ord("+"), 20), Ord("-"), 20), Ord("*"), 20)

\* The four assignments at the head of main.
InstallPrecedence(m) ==
    MapAssign(MapAssign(MapAssign(MapAssign(m,
        Ord("<"), 10), Ord("+"), 20), Ord("-"), 20), Ord("*"), 40)

\* The globals at program start, with standard input holding chars:
\* LastChar = ' ', the other statics zero-initialised, nothing printed.
InitGlobals(chars) ==
    [stdin |-> chars,
     LastChar |-> Ord(" "),
     IdentifierStr |-> << >>,
     NumVal |-> <<0, << >> >>,
     CurTok |-> 0,
     BinopPrecedence |-> [x \in {} |-> 0],
     stderr |-> << >>,
     ntok |-> 0,
     errAt |-> << >>]

\* Standard input for a sequence of lexemes: the lexemes with one space
\* between two of them.
RECURSIVE Join(_)
Join(ls) ==
    IF ls = << >> THEN << >>
    ELSE IF Len(ls) = 1 THEN ls[1]
    ELSE ls[1] \o <<Ord(" ")>> \o Join(Tail(ls))

\* What is left to read: the characters of standard input, the buffered
\* character and the current token.
Unread(G) ==
    Len(G.stdin) + (IF G.LastChar # EOF THEN 1 ELSE 0)
                 + (IF G.CurTok # tok_eof THEN 1 ELSE 0)

\* The history record of one MainLoop iteration that ran handler h from
\* globals G: the token it started at, what the entry point returned and
\* where, and the reports made meanwhile.
Iteration(name, G, h) ==
    [handler |-> name,
     tok |-> G.CurTok,
     ntokIn |-> G.ntok,
     ast |-> h.ret.ast,
     retTok |-> h.ret.g.CurTok,
     ntokRet |-> h.ret.g.ntok,
     errs |-> SubSeq(h.ret.g.errAt, Len(G.errAt) + 1, Len(h.ret.g.errAt)),
     ntokOut |-> h.g.ntok,
     tokOut |-> h.g.CurTok,
     unreadIn |-> Unread(G),
     unreadOut |-> Unread(h.g)]

\* main, up to the call of MainLoop.
Main ==
    /\ pc = "main"
    /\ st' = getNextToken(fprintf(
                [st EXCEPT !.BinopPrecedence = InstallPrecedence(@)], Prompt))
    /\ pc' = "loop"
    /\ UNCHANGED <<src, hist>>

MainLoopEof ==
    /\ pc = "loop"
    /\ st.CurTok = tok_eof
    /\ st' = fprintf(st, "\n")
    /\ pc' = "done"
    /\ UNCHANGED <<src, hist>>

MainLoopSemicolon ==
    /\ pc = "loop"
    /\ st.CurTok = Ord(";")
    /\ st' = SkipSemicolon(st)
    /\ hist' = Append(hist, Iteration("SkipSemicolon", st,
                                      [ret |-> [g |-> st, ast |-> Null],
                                       g |-> st']))
    /\ UNCHANGED <<src, pc>>

MainLoopDefinition ==
    /\ pc = "loop"
    /\ st.CurTok = tok_def
    /\ \E h \in {HandleDefinition(st)} :
           /\ st' = h.g
           /\ hist' = Append(hist, Iteration("HandleDefinition", st, h))
    /\ UNCHANGED <<src, pc>>

MainLoopExtern ==
    /\ pc = "loop"
    /\ st.CurTok = tok_extern
    /\ \E h \in {HandleExtern(st)} :
           /\ st' = h.g
           /\ hist' = Append(hist, Iteration("HandleExtern", st, h))
    /\ UNCHANGED <<src, pc>>

MainLoopDefault ==
    /\ pc = "loop"
    /\ st.CurTok \notin {tok_eof, Ord(";"), tok_def, tok_extern}
    /\ \E h \in {HandleTopLevelExpression(st)} :
           /\ st' = h.g
           /\ hist' = Append(hist, Iteration("HandleTopLevelExpression", st, h))
    /\ UNCHANGED <<src, pc>>

Next ==
    \/ Main
    \/ MainLoopEof
    \/ MainLoopSemicolon
    \/ MainLoopDefinition
    \/ MainLoopExtern
    \/ MainLoopDefault

----------------------------------------------------------------------------
(* Inputs.                                                                 *)

kw_def == Str(<<"d", "e", "f">>)
kw_extern == Str(<<"e", "x", "t", "e", "r", "n">>)
id_foo == Str(<<"f", "o", "o">>)
id_sin == Str(<<"s", "i", "n">>)
id_a == Str(<<"a">>)
id_x == Str(<<"x">>)
id_y == Str(<<"y">>)
num_1 == Str(<<"1">>)
num_2 == Str(<<"2">>)
num_3 == Str(<<"3">>)
num_4 == Str(<<"4">>)
num_4_0 == Str(<<"4", ".", "0">>)
lparen == Str(<<"(">>)
rparen == Str(<<")">>)
comma == Str(<<",">>)
semi == Str(<<";">>)
plus == Str(<<"+">>)
minus == Str(<<"-">>)
star == Str(<<"*">>)
less == Str(<<"<">>)

\* The four lines of the README's session.
Line1 == <<kw_def, id_foo, lparen, id_x, id_y, rparen,
           id_x, plus, id_foo, lparen, id_y, comma, num_4_0, rparen, semi>>
Line2 == <<kw_def, id_foo, lparen, id_x, id_y, rparen,
           id_x, plus, id_y, id_y, semi>>
Line3 == <<kw_def, id_foo, lparen, id_x, id_y, rparen,
           id_x, plus, id_y, rparen, semi>>
Line4 == <<kw_extern, id_sin, lparen, id_a, rparen, semi>>

Samples ==
    { Line1, Line2, Line3, Line4, Line3 \o Line4,
      Line1 \o Line2 \o Line3 \o Line4,
      <<kw_def>> }

\* Every sequence of at most n lexemes of the set L.
SeqsUpTo(L, n) == UNION { [1..k -> L] : k \in 0..n }

MaxToks == 4
ShortLexemes ==
    { kw_def, kw_extern, id_x, num_1, lparen, rparen, comma, plus, semi }
ShortPrograms == SeqsUpTo(ShortLexemes, MaxToks)

\* Arithmetic expressions, by their number of tokens: a primary is a number
\* or a parenthesised expression, an expression is primaries separated by
\* binary operators.  "n" stands for a number.
BinOps == {"+", "-", "*", "<"}

RECURSIVE PrimShapes(_), ExprShapes(_)
PrimShapes(l) ==
    IF l = 1 THEN { <<"n">> }
    ELSE IF l >= 3 THEN { <<"(">> \o e \o <<")">> : e \in ExprShapes(l - 2) }
    ELSE {}

ExprShapes(l) ==
    PrimShapes(l) \cup
    UNION { { p \o <<op>> \o e : p \in PrimShapes(i), op \in BinOps,
                                 e \in ExprShapes(l - 1 - i) } : i \in 1..(l - 2) }

\* The lexemes of a shape: its k-th number is the numeral k, so that every
\* operand of an expression is a different number.
RECURSIVE Numbered(_, _)
Numbered(shape, k) ==
    IF shape = << >> THEN << >>
    ELSE IF Head(shape) = "n"
         THEN <<Str(<<AsciiTable[17 + k]>>)>> \o Numbered(Tail(shape), k + 1)
         ELSE <<Str(<<Head(shape)>>)>> \o Numbered(Tail(shape), k)

MaxExprLen == 7
ArithExprs ==
    { Numbered(sh, 1) : sh \in UNION { ExprShapes(l) : l \in 1..MaxExprLen } }

\* Chains p1 op1 p2 op2 ... of at most MaxChain operators of one precedence.
MaxChain == 4
SamePrecedence == { {"<"}, {"+", "-"}, {"*"} }

RECURSIVE ChainShapes(_, _)
ChainShapes(ops, n) ==
    IF n = 0 THEN { <<"n">> }
    ELSE { c \o <<op, "n">> : c \in ChainShapes(ops, n - 1), op \in ops }

Chains ==
    { Numbered(sh, 1) :
        sh \in UNION { ChainShapes(ops, n) : ops \in SamePrecedence,
                                             n \in 1..MaxChain } }

\* Expressions written out with the tree each stands for.
Num(i) == NumberExprAST(<<i, << >> >>)
Var(name) == VariableExprAST(name)
Bin(op, l, r) == BinaryExprAST(Ord(op), l, r)

E_x_plus_y == [lex |-> <<id_x, plus, id_y>>, ast |-> Bin("+", Var(id_x), Var(id_y))]
E_x == [lex |-> <<id_x>>, ast |-> Var(id_x)]
E_y == [lex |-> <<id_y>>, ast |-> Var(id_y)]
E_1 == [lex |-> <<num_1>>, ast |-> Num(1)]
E_4_0 == [lex |-> <<num_4_0>>, ast |-> Num(4)]
E_paren ==
    [lex |-> <<id_y, star, lparen, id_x, plus, num_1, rparen>>,
     ast |-> Bin("*", Var(id_y), Bin("+", Var(id_x), Num(1)))]
E_call ==
    [lex |-> <<id_foo, lparen, id_y, comma, num_4_0, rparen>>,
     ast |-> CallExprAST(id_foo, <<Var(id_y), Num(4)>>)]

\* def <name> ( <params> ) <body>
MaxParams == 2
DefCases ==
    [name : {id_foo, id_a},
     params : SeqsUpTo({id_x, id_y}, MaxParams),
     body : {E_x_plus_y, E_x, E_1, E_paren, E_call}]
DefLexemes(d) == <<kw_def, d.name, lparen>> \o d.params \o <<rparen>> \o d.body.lex
DefPrograms == { DefLexemes(d) : d \in DefCases }

\* <callee> ( <arg> , ... , <arg> ), and an identifier followed by
\* something else than '('.
MaxArgs == 2
RECURSIVE CommaSeparated(_)
CommaSeparated(args) ==
    IF args = << >> THEN << >>
    ELSE IF Len(args) = 1 THEN args[1].lex
    ELSE args[1].lex \o <<comma>> \o CommaSeparated(Tail(args))

CallCases ==
    [callee : {id_foo, id_x},
     args : SeqsUpTo({E_y, E_4_0, E_x_plus_y, E_call}, MaxArgs)]
CallLexemes(c) == <<c.callee, lparen>> \o CommaSeparated(c.args) \o <<rparen>>
CallPrograms == { CallLexemes(c) : c \in CallCases }

Followers == { << >>, <<semi>>, <<rparen>>, <<comma>>, <<id_y>>, <<num_1>>, <<kw_def>> }
VariableCases == [name : {id_foo, id_x}, follow : Followers]
VariableLexemes(c) == <<c.name>> \o c.follow
VariablePrograms == { VariableLexemes(c) : c \in VariableCases }

\* A top-level construct, a stray token, then another construct, with or
\* without a ';' before it.
Constructs ==
    { [lex |-> DefLexemes([name |-> id_foo, params |-> <<id_x, id_y>>,
                           body |-> E_x_plus_y]),
       handler |-> "HandleDefinition",
       ast |-> FunctionAST(PrototypeAST(id_foo, <<id_x, id_y>>), E_x_plus_y.ast)],
      [lex |-> <<kw_extern, id_sin, lparen, id_a, rparen>>,
       handler |-> "HandleExtern",
       ast |-> PrototypeAST(id_sin, <<id_a>>)],
      [lex |-> E_paren.lex,
       handler |-> "HandleTopLevelExpression",
       ast |-> FunctionAST(AnonProto, E_paren.ast)] }
StrayTokens == { rparen, comma, Str(<<"!">>) }
StrayCases ==
    [first : Constructs, stray : StrayTokens, sep : {<< >>, <<semi>>},
     second : Constructs]
StrayLexemes(c) == c.first.lex \o <<c.stray>> \o c.sep \o c.second.lex
StrayPrograms == { StrayLexemes(c) : c \in StrayCases }

\* An expression and the token after it.
Terminators ==
    { [lex |-> << >>, tok |-> tok_eof],
      [lex |-> <<rparen>>, tok |-> Ord(")")],
      [lex |-> <<comma>>, tok |-> Ord(",")],
      [lex |-> <<semi>>, tok |-> Ord(";")],
      [lex |-> <<id_y>>, tok |-> tok_identifier],
      [lex |-> <<num_2>>, tok |-> tok_number],
      [lex |-> <<kw_def>>, tok |-> tok_def],
      [lex |-> <<kw_extern>>, tok |-> tok_extern],
      [lex |-> <<Str(<<"=">>)>>, tok |-> Ord("=")] }
TerminatedCases ==
    [expr : {E_x_plus_y, E_x, E_1, E_paren, E_call}, term : Terminators]
TerminatedLexemes(c) == c.expr.lex \o c.term.lex
TerminatedPrograms == { TerminatedLexemes(c) : c \in TerminatedCases }

\* Broken inputs: the first k lexemes of a valid one, then a lexeme that
\* does not belong there (or nothing: the input ends early).
Nested ==
    <<kw_def, id_foo, lparen, id_x, rparen, id_foo, lparen, lparen, num_1,
      plus, id_x, rparen, star, id_foo, lparen, id_y, comma, num_2, rparen,
      rparen>>
WrongLexemes == { << >>, <<rparen>>, <<comma>>, <<kw_def>>, <<star>>, <<num_1>>, <<lparen>> }
BrokenPrograms ==
    UNION { { SubSeq(s, 1, k) \o w : k \in 0..(Len(s) - 1), w \in WrongLexemes } :
            s \in {Line1, Line4, Nested} }

Init ==
    /\ \/ src \in Samples
       \/ src \in ShortPrograms
       \/ src \in ArithExprs
       \/ src \in Chains
       \/ src \in DefPrograms
       \/ src \in CallPrograms
       \/ src \in VariablePrograms
       \/ src \in StrayPrograms
       \/ src \in TerminatedPrograms
       \/ src \in BrokenPrograms
    /\ st = InitGlobals(Join(src))
    /\ pc = "main"
    /\ hist = << >>

Spec == Init /\ [][Next]_vars

----------------------------------------------------------------------------
(* The tokenizer alone: gettok called on a character stream until it       *)
(* returns end-of-input, then once more.  hist collects the tokens.        *)

\* A token as its consumer sees it: the kind, and the value the tokenizer
\* left for that kind.
TokenOf(G) ==
    [tok |-> G.CurTok,
     IdentifierStr |-> IF G.CurTok = tok_identifier THEN G.IdentifierStr ELSE << >>,
     NumVal |-> IF G.CurTok = tok_number THEN G.NumVal ELSE << >>]

LexToken ==
    /\ pc = "lex"
    /\ st' = getNextToken(st)
    /\ hist' = Append(hist, TokenOf(st'))
    /\ pc' = IF st'.CurTok = tok_eof THEN "eof" ELSE "lex"
    /\ UNCHANGED src

LexAfterEof ==
    /\ pc = "eof"
    /\ st' = getNextToken(st)
    /\ pc' = "end"
    /\ UNCHANGED <<src, hist>>

NextLex == LexToken \/ LexAfterEof

MaxChars == 5
LexChars == { Ord(c) : c \in {"a", "1", "#", "\n", "\r", " ", "+"} }
CharStreams == SeqsUpTo(LexChars, MaxChars)

\* "1 + 2 # comment\n+ 3", and "1 + 2 # comment" up to the end of input.
CommentToEnd ==
    Str(<<"1", " ", "+", " ", "2", " ", "#", " ", "c", "o", "m", "m", "e", "n", "t">>)
CommentThenLine == CommentToEnd \o Str(<<"\n", "+", " ", "3">>)
LexSamples == { CommentToEnd, CommentThenLine }

InitLex ==
    /\ \/ src \in { <<cs>> : cs \in CharStreams }
       \/ src \in { <<cs>> : cs \in LexSamples }
    /\ st = InitGlobals(Join(src))
    /\ pc = "lex"
    /\ hist = << >>

SpecLex == InitLex /\ [][NextLex]_vars

----------------------------------------------------------------------------
(* Properties.                                                             *)

\* What an iteration of MainLoop did, without the positions: the handler,
\* the node returned, the number of error reports and of tokens requested.
Outline(h) ==
    [handler |-> h.handler, ast |-> h.ast, errs |-> Len(h.errs),
     used |-> h.ntokOut - h.ntokIn]
Outlines == [i \in 1..Len(hist) |-> Outline(hist[i])]

Parsed(handler, ast, used) ==
    [handler |-> handler, ast |-> ast, errs |-> 0, used |-> used]
Skipped == [handler |-> "SkipSemicolon", ast |-> Null, errs |-> 0, used |-> 1]
FailedExpression ==
    [handler |-> "HandleTopLevelExpression", ast |-> Null, errs |-> 1, used |-> 1]

\* The conventional reading of an arithmetic expression, by a grammar with
\* one rule per precedence level, loosest first, each level left-associative:
\*   level k ::= level k+1 (op_k level k+1)*      primary ::= leaf | ( level 1 )
PrecedenceLevels == << {less}, {plus, minus}, {star} >>

Leaf(lexeme) ==
    IF isdigit(lexeme[1]) THEN Num(lexeme[1] - 48) ELSE Var(lexeme)

RECURSIVE RefLevel(_, _), RefTail(_, _), RefPrimary(_)
RefJoin(op, left, r) ==
    [ast |-> BinaryExprAST(op[1], left, r.ast), rest |-> r.rest]
RefUnparen(r) == [ast |-> r.ast, rest |-> Tail(r.rest)]
RefPrimary(ts) ==
    IF Head(ts) = lparen THEN RefUnparen(RefLevel(1, Tail(ts)))
    ELSE [ast |-> Leaf(Head(ts)), rest |-> Tail(ts)]
RefLevel(k, ts) ==
    IF k > Len(PrecedenceLevels) THEN RefPrimary(ts)
    ELSE RefTail(k, RefLevel(k + 1, ts))
RefTail(k, l) ==
    IF l.rest # << >> /\ Head(l.rest) \in PrecedenceLevels[k]
    THEN RefTail(k, RefJoin(Head(l.rest), l.ast, RefLevel(k + 1, Tail(l.rest))))
    ELSE l
RefParse(ts) == RefLevel(1, ts).ast

\* C1: the tree of an arithmetic expression over + - * < and parentheses is
\* the one of the conventional reading: a higher-precedence operator binds
\* tighter, a parenthesised sub-expression is one operand and leaves no node
\* of its own.  1+2*3 is Binary(+, 1, Binary(*, 2, 3)) and (1+2)*3 is
\* Binary(*, Binary(+, 1, 2), 3).
C1_PrecedenceAndParentheses ==
    hist # << >> =>
        /\ src \in ArithExprs =>
               hist[1].ast = FunctionAST(AnonProto, RefParse(src))
        /\ src = <<num_1, plus, num_2, star, num_3>> =>
               hist[1].ast = FunctionAST(AnonProto,
                                 Bin("+", Num(1), Bin("*", Num(2), Num(3))))
        /\ src = <<lparen, num_1, plus, num_2, rparen, star, num_3>> =>
               hist[1].ast = FunctionAST(AnonProto,
                                 Bin("*", Bin("+", Num(1), Num(2)), Num(3)))

C1_Witness ==
    /\ pc = "done"
    /\ src = <<lparen, num_1, plus, num_2, rparen, star, num_3>>
    /\ Outlines = <<Parsed("HandleTopLevelExpression",
                           FunctionAST(AnonProto,
                               Bin("*", Bin("+", Num(1), Num(2)), Num(3))), 7)>>

\* The left-nested tree of a chain p1 op1 p2 op2 ... pn.
RECURSIVE LeftNested(_)
LeftNested(ts) ==
    IF Len(ts) = 1 THEN Leaf(ts[1])
    ELSE BinaryExprAST(ts[Len(ts) - 1][1],
                       LeftNested(SubSeq(ts, 1, Len(ts) - 2)),
                       Leaf(ts[Len(ts)]))

\* C2: a chain of operators of one precedence (+ and - mixed included)
\* parses to the left-nested tree; 1-2-3 is Binary(-, Binary(-, 1, 2), 3).
C2_LeftAssociative ==
    hist # << >> =>
        /\ src \in Chains =>
               hist[1].ast = FunctionAST(AnonProto, LeftNested(src))
        /\ src = <<num_1, minus, num_2, minus, num_3>> =>
               hist[1].ast = FunctionAST(AnonProto,
                                 Bin("-", Bin("-", Num(1), Num(2)), Num(3)))

C2_Witness ==
    /\ pc = "done"
    /\ src = <<num_1, minus, num_2, plus, num_3, minus, num_4>>
    /\ hist[1].ast = FunctionAST(AnonProto,
           Bin("-", Bin("+", Bin("-", Num(1), Num(2)), Num(3)), Num(4)))

\* C3: def <name> ( <id>* ) <expression> gives a Function whose prototype
\* has the name and exactly the parameters written, in order and with
\* duplicates, and whose body is the tree of the expression.
C3_Definition ==
    hist # << >> =>
        \A d \in DefCases :
            src = DefLexemes(d) =>
                Outline(hist[1]) =
                    Parsed("HandleDefinition",
                           FunctionAST(PrototypeAST(d.name, d.params), d.body.ast),
                           Len(src))

C3_Witness ==
    /\ pc = "done"
    /\ src = <<kw_def, id_foo, lparen, id_x, id_y, rparen, id_x, plus, id_y>>
    /\ hist[1].ast = FunctionAST(PrototypeAST(id_foo, <<id_x, id_y>>),
                                 Bin("+", Var(id_x), Var(id_y)))

\* C4: an identifier followed by ( gives a Call of that identifier with one
\* tree per comma-separated argument, in order (none for name()); an
\* identifier followed by anything else gives a Variable.
C4_CallAndVariable ==
    hist # << >> =>
        /\ \A c \in CallCases :
               src = CallLexemes(c) =>
                   Outline(hist[1]) =
                       Parsed("HandleTopLevelExpression",
                              FunctionAST(AnonProto,
                                  CallExprAST(c.callee,
                                      [i \in 1..Len(c.args) |-> c.args[i].ast])),
                              Len(src))
        /\ \A c \in VariableCases :
               src = VariableLexemes(c) =>
                   Outline(hist[1]) =
                       Parsed("HandleTopLevelExpression",
                              FunctionAST(AnonProto, Var(c.name)), 1)

C4_Witness ==
    /\ pc = "done"
    /\ src = E_call.lex
    /\ hist[1].ast = FunctionAST(AnonProto,
                         CallExprAST(id_foo, <<Var(id_y), Num(4)>>))

\* What MainLoop does on a construct c and on a lone ';'.
Construct(c) == Parsed(c.handler, c.ast, Len(c.lex))
Separator(sep) == IF sep = << >> THEN << >> ELSE <<Skipped>>

\* C5: a stray token after a valid construct costs one failed top-level
\* expression, with one error report and one token skipped, and the next
\* construct parses as it does on its own.  On
\* "def foo(x y) x + y ); extern sin(a);" stderr is the definition's
\* report, one error, and the extern's report.
C5_StrayToken ==
    pc = "done" =>
        /\ \A c \in StrayCases :
               src = StrayLexemes(c) =>
                   Outlines = <<Construct(c.first), FailedExpression>>
                              \o Separator(c.sep) \o <<Construct(c.second)>>
        /\ src = Line3 \o Line4 =>
               st.stderr =
                   << Prompt,
                      "Parsed a function definition\n",
                      "Error: unknown token when expecting an expression\n",
                      Prompt,
                      "Parsed an extern\n",
                      Prompt,
                      "\n" >>

C5_Witness ==
    /\ pc = "done"
    /\ src = Line3 \o Line4
    /\ Len(hist) = 5
    /\ hist[2].tok = Ord(")") /\ hist[2].tokOut = Ord(";") /\ Len(hist[2].errs) = 1
    /\ hist[4].ast = PrototypeAST(id_sin, <<id_a>>)

IsBinaryOperator(tok) == tok \in {Ord("<"), Ord("+"), Ord("-"), Ord("*")}

\* C6: an expression ends at the first token that is not a binary operator
\* and leaves it as the current token; "def foo(x y) x + y y;" is a
\* definition followed by a top-level expression, without an error.
C6_ExpressionEnds ==
    /\ \A i \in 1..Len(hist) :
           (/\ hist[i].handler \in {"HandleDefinition", "HandleTopLevelExpression"}
            /\ ~IsNull(hist[i].ast)) =>
               /\ ~IsBinaryOperator(hist[i].retTok)
               /\ hist[i].tokOut = hist[i].retTok
    /\ hist # << >> =>
           \A c \in TerminatedCases :
               src = TerminatedLexemes(c) =>
                   /\ Outline(hist[1]) =
                          Parsed("HandleTopLevelExpression",
                                 FunctionAST(AnonProto, c.expr.ast),
                                 Len(c.expr.lex))
                   /\ hist[1].tokOut = c.term.tok
    /\ (pc = "done" /\ src = Line2) =>
           /\ Outlines =
                  << Parsed("HandleDefinition",
                            FunctionAST(PrototypeAST(id_foo, <<id_x, id_y>>),
                                        Bin("+", Var(id_x), Var(id_y))), 9),
                     Parsed("HandleTopLevelExpression",
                            FunctionAST(AnonProto, Var(id_y)), 1),
                     Skipped >>
           /\ st.stderr = << Prompt,
                             "Parsed a function definition\n",
                             "Parsed a top-level expression\n",
                             Prompt,
                             "\n" >>

C6_Witness ==
    /\ pc = "done"
    /\ src = Line2
    /\ Len(hist) = 3
    /\ hist[1].retTok = tok_identifier
    /\ hist[2].tok = tok_identifier /\ hist[2].retTok = Ord(";")

\* The characters of a stream outside its comments: a comment runs from '#'
\* up to, not including, the next newline or carriage return, or to the end.
RECURSIVE RemoveComments(_, _)
RemoveComments(cs, inComment) ==
    IF cs = << >> THEN << >>
    ELSE IF inComment /\ Head(cs) \notin {Ord("\n"), Ord("\r")}
        THEN RemoveComments(Tail(cs), TRUE)
    ELSE IF ~inComment /\ Head(cs) = Ord("#")
        THEN RemoveComments(Tail(cs), TRUE)
    ELSE <<Head(cs)>> \o RemoveComments(Tail(cs), FALSE)

\* The tokens successive gettok calls return on a stream, the end-of-input
\* token included; G1 holds the token just read.
RECURSIVE TokensFrom(_)
TokensFrom(G1) ==
    IF G1.CurTok = tok_eof THEN <<TokenOf(G1)>>
    ELSE <<TokenOf(G1)>> \o TokensFrom(getNextToken(G1))
TokenStream(cs) == TokensFrom(getNextToken(InitGlobals(cs)))

NumberToken(i) ==
    [tok |-> tok_number, IdentifierStr |-> << >>, NumVal |-> <<i, << >> >>]
CharToken(c) == [tok |-> Ord(c), IdentifierStr |-> << >>, NumVal |-> << >>]
EofToken == [tok |-> tok_eof, IdentifierStr |-> << >>, NumVal |-> << >>]

\* C7: the tokens of a stream are those of the stream without its comments;
\* "1 + 2 # comment\n+ 3" gives the tokens of "1 + 2 + 3", and a comment
\* that runs to the end of input gives the end-of-input token.
C7_CommentsElided ==
    pc \in {"eof", "end"} =>
        /\ hist = TokenStream(RemoveComments(src[1], FALSE))
        /\ src[1] = CommentThenLine =>
               hist = << NumberToken(1), CharToken("+"), NumberToken(2),
                         CharToken("+"), NumberToken(3), EofToken >>
        /\ src[1] = CommentToEnd =>
               hist = << NumberToken(1), CharToken("+"), NumberToken(2), EofToken >>

C7_Witness ==
    /\ pc = "eof"
    /\ src[1] = CommentThenLine
    /\ Len(hist) = 6
    /\ hist[4] = CharToken("+")

\* C8: when an entry point fails, it returns at the token where the (first)
\* error was reported, and no token was requested after the report.
C8_FailureStopsAtError ==
    \A i \in 1..Len(hist) :
        (hist[i].handler # "SkipSemicolon" /\ IsNull(hist[i].ast)) =>
            /\ hist[i].errs # << >>
            /\ hist[i].ntokRet = hist[i].errs[1].ntok
            /\ hist[i].retTok = hist[i].errs[1].tok

\* A failure inside the parentheses inside the call's arguments inside
\* the definition's body, reported by ParsePrimary eight tokens in.
C8_Witness ==
    /\ src = SubSeq(Nested, 1, 8) \o <<rparen>>
    /\ Len(hist) >= 1
    /\ hist[1].handler = "HandleDefinition"
    /\ IsNull(hist[1].ast)
    /\ hist[1].ntokRet - hist[1].ntokIn = 8
    /\ hist[1].retTok = Ord(")")

\* C9: after main has installed the four entries, the precedence table never
\* changes, neither its keys nor a stored precedence.
C9_TableReadOnly ==
    pc # "main" => st.BinopPrecedence = InstallPrecedence([x \in {} |-> 0])

\* C10: the driver terminates.  An iteration starts at a token that is not
\* end-of-input and consumes at least one token, so that there are never
\* more iterations than there was input; gettok keeps returning end-of-input
\* once it has; and at end-of-input MainLoop can only return.
C10_Terminates ==
    /\ Len(hist) + Unread(st) <= Len(Join(src)) + 2
    /\ \A i \in 1..Len(hist) :
           /\ hist[i].tok # tok_eof
           /\ hist[i].ntokOut > hist[i].ntokIn
           /\ hist[i].unreadOut < hist[i].unreadIn
           /\ hist[i].retTok = tok_eof => hist[i].tokOut = tok_eof
    /\ (pc # "main" /\ st.CurTok = tok_eof) => getNextToken(st).CurTok = tok_eof
    /\ (pc = "loop" /\ st.CurTok = tok_eof) =>
           /\ ENABLED MainLoopEof
           /\ ~ENABLED (MainLoopSemicolon \/ MainLoopDefinition
                        \/ MainLoopExtern \/ MainLoopDefault)

C10_Witness ==
    /\ pc = "done"
    /\ src = <<kw_def>>
    /\ Len(hist) = 1
    /\ IsNull(hist[1].ast)
    /\ hist[1].retTok = tok_eof
    /\ hist[1].ntokOut = hist[1].ntokRet + 1

=============================================================================
